---- MODULE Spec2Model ----
(***************************************************************************)
(* Model of app.py: the background transcription pipeline                  *)
(* (process_audio_file), the registry of per-upload queues                 *)
(* (transcription_queues), the upload handler that validates the request,  *)
(* registers a queue and starts a pipeline thread, and the /stream         *)
(* generator that drains a queue.  Threads interleave between any two      *)
(* accesses of the shared dictionary: a membership test                    *)
(* (`queue_id in transcription_queues`) and the lookup that follows it     *)
(* (`transcription_queues[queue_id]`) are two steps.  Steps that touch     *)
(* only a thread's own locals are taken together with the statement they   *)
(* belong to.                                                              *)
(*                                                                         *)
(* Strings are sequences of one-character strings.  A Queue object is      *)
(* identified by the number of the upload that created it.  Time is not    *)
(* measured: a get(timeout=60) that finds its queue empty may raise        *)
(* queue.Empty at any later moment at which the queue is still empty.      *)
(***************************************************************************)
EXTENDS Naturals, Sequences, FiniteSets

\* ------------------------------------------------------------- bounds
\* Job threads of a run.
MaxJobs == 2
\* Stream consumers of a run.
MaxConsumers == 1
\* Chunks of an upload, in the runs of the pipelines alone.
MaxChunks == 2
\* Chunks of an upload, in the runs with stream consumers.
MaxChunksStreamed == 1
\* Uploads of one filename, in the runs about repeated uploads.
MaxReuploads == 3
\* Chunks of the upload, in the runs of a single pipeline.
MaxPipelineChunks == 3

\* Filenames of the audio files the runs upload.
A_MP3 == <<"a", ".", "m", "p", "3">>
B_M4A == <<"b", ".", "m", "4", "a">>

\* A POST /upload: whether request.files has a 'file' part, and the part's
\* filename.
FileUpload(filename) == [has_file |-> TRUE, filename |-> filename]
NoFilePart == [has_file |-> FALSE, filename |-> <<>>]

\* The uploads of the runs about the pipelines.
AudioUploads == {FileUpload(A_MP3), FileUpload(B_M4A)}

\* The uploads of the runs about upload_file: besides the two above, no file
\* part, no filename, a name without a dot, another extension, an upper-case
\* extension, a name with a space, and a name that is only an extension.
UploadRequests ==
    AudioUploads \cup
        {NoFilePart,
         FileUpload(<<>>),
         FileUpload(<<"m", "p", "3">>),
         FileUpload(<<"a", ".", "t", "x", "t">>),
         FileUpload(<<"a", ".", "M", "P", "3">>),
         FileUpload(<<"a", " ", "b", ".", "m", "p", "3">>),
         FileUpload(<<".", "m", "p", "3">>)}

\* request.args.get('queue_id') of a GET /stream without the argument, or
\* with an empty one: None and '' are both false at line 199.
NoQueueId == <<>>

\* ---------------------------------------------------------- constants
chunk_length_ms == 60000

ALLOWED_EXTENSIONS == {<<"m", "p", "3">>, <<"m", "4", "a">>}

UpperCase ==
    <<"A", "B", "C", "D", "E", "F", "G", "H", "I", "J", "K", "L", "M",
      "N", "O", "P", "Q", "R", "S", "T", "U", "V", "W", "X", "Y", "Z">>
LowerCase ==
    <<"a", "b", "c", "d", "e", "f", "g", "h", "i", "j", "k", "l", "m",
      "n", "o", "p", "q", "r", "s", "t", "u", "v", "w", "x", "y", "z">>
Digits == {"0", "1", "2", "3", "4", "5", "6", "7", "8", "9"}

\* Durations of the converted audio, in ms: none, and for each chunk count
\* a duration that ends in a partial chunk.
TotalLengths(maxChunks) ==
    {0} \cup {n * chunk_length_ms - 30000 : n \in 1..maxChunks}

\* Durations around the multiples of the chunk length: the multiple, one
\* millisecond more, half a chunk more, one millisecond less than the next.
PipelineLengths(maxChunks) ==
    {n * chunk_length_ms + d : n \in 0..(maxChunks - 1),
                                d \in {0, 1, 30000, chunk_length_ms - 1}}
        \cup {maxChunks * chunk_length_ms}

\* What recognize_google may return: silence, or a word.
RecognizedTexts == {<<>>, <<"a">>}

\* The failures of the external services: convert_to_wav raises, the
\* splitting raises, recognition raises sr.UnknownValueError or
\* sr.RequestError, writing the transcript raises.
Faults == {"convert", "split", "UnknownValueError", "RequestError", "save"}

NOT_UNDERSTOOD ==
    <<"{", "n", "o", "t", " ", "u", "n", "d", "e", "r", "s", "t", "o", "o",
      "d", " ", "h", "e", "r", "e", "}">>

NoFile == <<"<no file>">>
NoText == <<"<no text>">>

\* ------------------------------------------------------------- events
Progress(i, n) == [type |-> "progress", chunk |-> i, total |-> n]
Transcription(t) == [type |-> "transcription", text |-> t]
Complete(link) == [type |-> "complete", download_link |-> link]
Error(msg) == [type |-> "error", message |-> msg]

IsTerminal(e) == e.type \in {"complete", "error"}

\* ------------------------------------------------------ pure functions
\* A chunk count that leaves out the partial chunk at the end.
NumChunksFloor(total_length_ms) ==
    total_length_ms \div chunk_length_ms

Range(s) == {s[i] : i \in DOMAIN s}
Min(a, b) == IF a <= b THEN a ELSE b

\* str.lower().
Lower(s) ==
    [i \in DOMAIN s |->
        IF \E k \in DOMAIN UpperCase : UpperCase[k] = s[i]
        THEN LowerCase[CHOOSE k \in DOMAIN UpperCase : UpperCase[k] = s[i]]
        ELSE s[i]]

\* The place of the last c in s, 0 if there is none.
LastIndex(s, c) ==
    IF c \in Range(s)
    THEN CHOOSE i \in DOMAIN s : s[i] = c /\ \A k \in DOMAIN s : s[k] = c => k <= i
    ELSE 0

\* An allowed_file that compares the extension as it is spelled.
allowed_file_as_spelled(filename) ==
    /\ "." \in Range(filename)
    /\ SubSeq(filename, LastIndex(filename, ".") + 1, Len(filename))
            \in ALLOWED_EXTENSIONS

\* allowed_file, lines 26-27: filename.rsplit(".", 1)[1] is what follows the
\* last dot.
allowed_file(filename) ==
    /\ "." \in Range(filename)
    /\ Lower(SubSeq(filename, LastIndex(filename, ".") + 1, Len(filename)))
            \in ALLOWED_EXTENSIONS

\* os.path.splitext of a name without a directory: the extension starts at
\* the last dot, unless only dots come before it.
splitext(name) ==
    IF /\ LastIndex(name, ".") > 0
       /\ \E k \in 1..(LastIndex(name, ".") - 1) : name[k] # "."
    THEN <<SubSeq(name, 1, LastIndex(name, ".") - 1),
           SubSeq(name, LastIndex(name, "."), Len(name))>>
    ELSE <<name, <<>>>>

\* os.path.join(TRANSCRIPT_FOLDER, f"transcription_for_{filename_without_ext}.txt")
TranscriptionFile(q) ==
    <<"transcriptions/", "transcription_for_">> \o splitext(q)[1] \o <<".txt">>

\* num_chunks, line 74.
NumChunks(total_length_ms) ==
    (total_length_ms \div chunk_length_ms)
        + (IF total_length_ms % chunk_length_ms # 0 THEN 1 ELSE 0)

IsSpace(c) == c = " "

RECURSIVE LStrip(_)
LStrip(s) ==
    IF s # <<>> /\ IsSpace(Head(s)) THEN LStrip(Tail(s)) ELSE s

RECURSIVE RStrip(_)
RStrip(s) ==
    IF s # <<>> /\ IsSpace(s[Len(s)])
    THEN RStrip(SubSeq(s, 1, Len(s) - 1))
    ELSE s

\* A strip() that trims the end only.
StripTrailing(s) == RStrip(s)

\* str.strip(), line 136: leading and trailing whitespace removed.
Strip(s) == RStrip(LStrip(s))

\* "_".join(s.split()) of a string that neither starts nor ends with
\* whitespace.
RECURSIVE JoinWords(_)
JoinWords(s) ==
    IF s = <<>> THEN <<>>
    ELSE IF IsSpace(Head(s)) THEN <<"_">> \o JoinWords(LStrip(s))
    ELSE <<Head(s)>> \o JoinWords(Tail(s))

IsSafeChar(c) ==
    c \in Range(UpperCase) \cup Range(LowerCase) \cup Digits \cup {"_", ".", "-"}
IsDotOrUnderscore(c) == c \in {".", "_"}

RECURSIVE LStripDots(_)
LStripDots(s) ==
    IF s # <<>> /\ IsDotOrUnderscore(Head(s)) THEN LStripDots(Tail(s)) ELSE s

RECURSIVE RStripDots(_)
RStripDots(s) ==
    IF s # <<>> /\ IsDotOrUnderscore(s[Len(s)])
    THEN RStripDots(SubSeq(s, 1, Len(s) - 1))
    ELSE s

\* werkzeug's secure_filename (line 174) on ASCII names: path separators
\* become spaces, the words are joined with "_", characters outside
\* [A-Za-z0-9_.-] are dropped, and dots and underscores are stripped from
\* both ends.
secure_filename(filename) ==
    RStripDots(LStripDots(
        SelectSeq(JoinWords(Strip([i \in DOMAIN filename |->
                                     IF filename[i] = "/" THEN " " ELSE filename[i]])),
                  IsSafeChar)))

\* Lines 166-173: the upload passes the three tests of upload_file.
IsAccepted(r) ==
    /\ r.has_file
    /\ r.filename # <<>>
    /\ allowed_file(r.filename)

\* The queue_id arguments of the stream requests of a run with the given
\* uploads: none, or the name one of the uploads is registered under.
QueueIdArgs(uploads) ==
    {NoQueueId} \cup
        {secure_filename(r.filename) : r \in {u \in uploads : IsAccepted(u)}}

\* The keys the registry can get (queue_id = filename, line 180).
QueueIds == {secure_filename(r.filename) : r \in {u \in UploadRequests : IsAccepted(u)}}

\* The bounds of the chunks cut by the loop of lines 81-88; chunk i of the
\* list is the loop's i - 1.
ChunkFiles(total_length_ms) ==
    [i \in 1..NumChunks(total_length_ms) |->
        [start |-> (i - 1) * chunk_length_ms,
         end |-> Min(i * chunk_length_ms, total_length_ms)]]

VARIABLES
    registry,            \* transcription_queues: queue_id -> Queue (0: no key)
    chan,                \* the items of each Queue object, oldest first
    log,                 \* history: every put into each Queue object
    pc,                  \* each job thread's position in process_audio_file
    qid,                 \* each job's queue_id argument
    total_length_ms,     \* local total_length_ms
    chunk_files,         \* local chunk_files: the bounds of each chunk cut
    num_chunks,          \* local num_chunks
    index,               \* local index of the transcription loop
    text,                \* local text of the current iteration
    full_transcription,  \* local full_transcription
    written,             \* what the job wrote to its transcript file
    exc,                 \* the failure the job's outer handler caught
    unhandled,           \* where an exception escaped the thread
    emitted,             \* history: every put the job made
    calls,               \* history: the recognition calls the job made
    cpc,                 \* each stream consumer's position
    cqid,                \* the consumer's queue_id argument
    conn,                \* history: the Queue registered when it connected
    held,                \* the Queue object the consumer's get() waits on
    relayed,             \* history: the events the consumer yielded
    request,             \* history: the last POST /upload
    status,              \* history: the status of its response (0: none yet)
    env                  \* what the run's uploads and external services may do

\* The job threads and the stream consumers of a run.
Jobs == DOMAIN pc
Consumers == DOMAIN cpc

jobVars == <<pc, qid, total_length_ms, chunk_files, num_chunks, index, text,
             full_transcription, written, exc, unhandled, emitted, calls>>
upVars == <<request, status>>
conVars == <<cpc, cqid, conn, held, relayed>>
vars == <<registry, chan, log, jobVars, conVars, upVars, env>>

\* The state after the module has loaded (line 54: no key), for a run with
\* the given thread slots and environment e: the upload requests made
\* (uploads; queue_ids are the arguments the stream requests may carry),
\* the durations of their audio (lengths), the texts recognition returns
\* (texts) and the failures the external services show (faults).
InitWith(jobs, consumers, e) ==
    /\ registry = [q \in QueueIds |-> 0]
    /\ chan = [c \in jobs |-> <<>>]
    /\ log = [c \in jobs |-> <<>>]
    /\ pc = [j \in jobs |-> "idle"]
    /\ qid = [j \in jobs |-> A_MP3]
    /\ total_length_ms = [j \in jobs |-> 0]
    /\ chunk_files = [j \in jobs |-> <<>>]
    /\ num_chunks = [j \in jobs |-> 0]
    /\ index = [j \in jobs |-> 0]
    /\ text = [j \in jobs |-> NoText]
    /\ full_transcription = [j \in jobs |-> <<>>]
    /\ written = [j \in jobs |-> NoFile]
    /\ exc = [j \in jobs |-> "none"]
    /\ unhandled = [j \in jobs |-> "none"]
    /\ emitted = [j \in jobs |-> <<>>]
    /\ calls = [j \in jobs |-> <<>>]
    /\ cpc = [c \in consumers |-> "idle"]
    /\ cqid = [c \in consumers |-> NoQueueId]
    /\ conn = [c \in consumers |-> 0]
    /\ held = [c \in consumers |-> 0]
    /\ relayed = [c \in consumers |-> <<>>]
    /\ request = NoFilePart
    /\ status = 0
    /\ env = [uploads |-> e.uploads, queue_ids |-> QueueIdArgs(e.uploads),
              lengths |-> e.lengths, texts |-> e.texts, faults |-> e.faults]

\* The whole program: uploads, pipelines and stream consumers.
Init ==
    InitWith(1..MaxJobs, 1..MaxConsumers,
             [uploads |-> AudioUploads, lengths |-> TotalLengths(MaxChunksStreamed),
              texts |-> RecognizedTexts, faults |-> Faults])

\* The uploads and their pipelines, no stream connected; recognition
\* returns a word, or fails.
InitJobs ==
    InitWith(1..MaxJobs, {},
             [uploads |-> AudioUploads, lengths |-> TotalLengths(MaxChunks),
              texts |-> {<<"a">>}, faults |-> Faults])

\* One one-chunk file uploaded again and again; the external services
\* never fail.
InitReupload ==
    InitWith(1..MaxReuploads, {},
             [uploads |-> {FileUpload(A_MP3)}, lengths |-> {chunk_length_ms},
              texts |-> {<<"a">>}, faults |-> {}])

\* The upload handler with every kind of request; the audio is one chunk
\* long, and the external services never fail.
InitUpload ==
    InitWith(1..MaxJobs, {},
             [uploads |-> UploadRequests, lengths |-> {chunk_length_ms},
              texts |-> {<<"a">>}, faults |-> {}])

\* One upload and its pipeline, alone, with audio of every duration.
InitPipeline ==
    InitWith({1}, {},
             [uploads |-> {FileUpload(A_MP3)},
              lengths |-> PipelineLengths(MaxPipelineChunks),
              texts |-> RecognizedTexts, faults |-> Faults])

\* One file uploaded again and again, with its pipelines and a stream
\* consumer; the conversion may fail, and recognition returns a word or
\* raises sr.RequestError.
InitFair ==
    InitWith(1..MaxJobs, 1..MaxConsumers,
             [uploads |-> {FileUpload(A_MP3)},
              lengths |-> TotalLengths(MaxChunksStreamed),
              texts |-> {<<"a">>}, faults |-> {"convert", "RequestError"}])

\* ------------------------------------------------------------ helpers
\* A put on a Queue(maxsize=1): it waits while the queue holds an item.
PutBounded(j, c, seg, e) ==
    /\ Len(chan[c]) < 1
    /\ chan' = [chan EXCEPT ![c] = Append(@, e)]
    /\ log' = [log EXCEPT ![c] = Append(@, [by |-> j, seg |-> seg, ev |-> e])]
    /\ emitted' = [emitted EXCEPT ![j] = Append(@, [ch |-> c, seg |-> seg, ev |-> e])]

\* Queue.put(e) on Queue object c by job j while it handles segment seg
\* (0: outside the loop).  The Queue of line 181 has no maxsize: put never
\* waits.
Put(j, c, seg, e) ==
    /\ chan' = [chan EXCEPT ![c] = Append(@, e)]
    /\ log' = [log EXCEPT ![c] = Append(@, [by |-> j, seg |-> seg, ev |-> e])]
    /\ emitted' = [emitted EXCEPT ![j] = Append(@, [ch |-> c, seg |-> seg, ev |-> e])]

\* The outer handler (line 147) catches failure kind k.
Raise(j, k) ==
    /\ exc' = [exc EXCEPT ![j] = k]
    /\ pc' = [pc EXCEPT ![j] = "test_error"]

\* The end of one iteration of the loop of line 96.
NextChunk(j) ==
    IF index[j] < num_chunks[j]
    THEN /\ index' = [index EXCEPT ![j] = @ + 1]
         /\ pc' = [pc EXCEPT ![j] = "recognize"]
    ELSE /\ index' = index
         /\ pc' = [pc EXCEPT ![j] = "save"]

\* ------------------------------------------------------------- upload
\* upload_file, lines 164-192, answering request r with job thread j the
\* next to start (uploads are numbered in the order they are accepted).  A
\* rejected request is answered 400.  For an accepted one a new Queue
\* replaces whatever the key held, and the thread starts.
Upload(j, r) ==
    /\ pc[j] = "idle"
    /\ \A i \in Jobs : i < j => pc[i] # "idle"
    /\ request' = r
    /\ IF IsAccepted(r)
       THEN /\ registry' = [registry EXCEPT ![secure_filename(r.filename)] = j]
            /\ pc' = [pc EXCEPT ![j] = "convert"]
            /\ qid' = [qid EXCEPT ![j] = secure_filename(r.filename)]
            /\ status' = 200
       ELSE /\ status' = 400
            /\ UNCHANGED <<registry, pc, qid>>
    /\ UNCHANGED <<chan, log, num_chunks, index, text, full_transcription,
                   written, exc, unhandled, emitted, calls,
                   total_length_ms, chunk_files, conVars, env>>

\* ------------------------------------------------- process_audio_file
\* Lines 61-66: convert_to_wav returns, or raises; it raises ValueError
\* (line 40) for a path whose extension is not .mp3 or .m4a.
Convert(j) ==
    /\ pc[j] = "convert"
    /\ \/ /\ Lower(splitext(qid[j])[2]) \in {<<".">> \o x : x \in ALLOWED_EXTENSIONS}
          /\ pc' = [pc EXCEPT ![j] = "split"]
          /\ exc' = exc
       \/ /\ \/ "convert" \in env.faults
             \/ Lower(splitext(qid[j])[2]) \notin {<<".">> \o x : x \in ALLOWED_EXTENSIONS}
          /\ Raise(j, "Audio conversion failed")
    /\ UNCHANGED <<registry, chan, log, qid, num_chunks, index, text,
                   full_transcription, written, unhandled, emitted, calls,
                   total_length_ms, chunk_files, conVars, upVars, env>>

\* Lines 70-90: the chunks are cut and exported, or a step of it raises.
Split(j) ==
    /\ pc[j] = "split"
    /\ \/ \E len \in env.lengths :
            /\ total_length_ms' = [total_length_ms EXCEPT ![j] = len]
            /\ num_chunks' = [num_chunks EXCEPT ![j] = NumChunks(len)]
            /\ chunk_files' = [chunk_files EXCEPT ![j] = ChunkFiles(len)]
            /\ IF NumChunks(len) > 0
               THEN /\ index' = [index EXCEPT ![j] = 1]
                    /\ pc' = [pc EXCEPT ![j] = "recognize"]
               ELSE /\ index' = index
                    /\ pc' = [pc EXCEPT ![j] = "save"]
            /\ exc' = exc
       \/ /\ "split" \in env.faults
          /\ Raise(j, "Chunk creation failed")
          /\ UNCHANGED <<total_length_ms, num_chunks, chunk_files, index>>
    /\ UNCHANGED <<registry, chan, log, qid, text, full_transcription,
                   written, unhandled, emitted, calls, conVars, upVars, env>>

\* Lines 98-111, recognition answered: the text, or the placeholder for
\* sr.UnknownValueError, is appended with a space.
Recognized(j, result, t) ==
    /\ text' = [text EXCEPT ![j] = t]
    /\ full_transcription' = [full_transcription EXCEPT ![j] = @ \o t \o <<" ">>]
    /\ calls' = [calls EXCEPT ![j] =
                    Append(@, [chunk |-> index[j], result |-> result, text |-> t])]
    /\ pc' = [pc EXCEPT ![j] = "test_progress"]
    /\ exc' = exc

\* A pipeline that treats sr.RequestError like sr.UnknownValueError and
\* goes on with the placeholder.
RequestFailedMut(j) ==
    Recognized(j, "RequestError", NOT_UNDERSTOOD)

\* Lines 105-108 and 126-127: sr.RequestError leaves the loop.
RequestFailed(j) ==
    /\ calls' = [calls EXCEPT ![j] =
                    Append(@, [chunk |-> index[j], result |-> "RequestError", text |-> NoText])]
    /\ Raise(j, "RequestError")
    /\ UNCHANGED <<text, full_transcription>>

Recognize(j) ==
    /\ pc[j] = "recognize"
    /\ \/ \E t \in env.texts : Recognized(j, "text", t)
       \/ /\ "UnknownValueError" \in env.faults
          /\ Recognized(j, "UnknownValueError", NOT_UNDERSTOOD)
       \/ /\ "RequestError" \in env.faults
          /\ RequestFailed(j)
    /\ UNCHANGED <<registry, chan, log, qid, num_chunks, index, written,
                   unhandled, emitted,
                   total_length_ms, chunk_files, conVars, upVars, env>>

\* Line 114: the membership test.
TestProgress(j) ==
    /\ pc[j] = "test_progress"
    /\ IF registry[qid[j]] # 0
       THEN /\ pc' = [pc EXCEPT ![j] = "put_progress"]
            /\ index' = index
       ELSE NextChunk(j)
    /\ UNCHANGED <<registry, chan, log, qid, num_chunks, text,
                   full_transcription, written, exc, unhandled, emitted,
                   calls,
                   total_length_ms, chunk_files, conVars, upVars, env>>

\* Lines 115-119: the lookup and the put; a missing key is a KeyError,
\* which line 126 catches and re-raises to line 147.
PutProgress(j) ==
    /\ pc[j] = "put_progress"
    /\ IF registry[qid[j]] # 0
       THEN /\ Put(j, registry[qid[j]], index[j], Progress(index[j], num_chunks[j]))
            /\ pc' = [pc EXCEPT ![j] = "put_transcription"]
            /\ exc' = exc
       ELSE /\ Raise(j, "KeyError")
            /\ UNCHANGED <<chan, log, emitted>>
    /\ UNCHANGED <<registry, qid, num_chunks, index, text, full_transcription,
                   written, unhandled, calls,
                   total_length_ms, chunk_files, conVars, upVars, env>>

\* Lines 120-123.
PutTranscription(j) ==
    /\ pc[j] = "put_transcription"
    /\ IF registry[qid[j]] # 0
       THEN /\ Put(j, registry[qid[j]], index[j], Transcription(text[j] \o <<" ">>))
            /\ NextChunk(j)
            /\ exc' = exc
       ELSE /\ Raise(j, "KeyError")
            /\ UNCHANGED <<chan, log, emitted, index>>
    /\ UNCHANGED <<registry, qid, num_chunks, text, full_transcription,
                   written, unhandled, calls,
                   total_length_ms, chunk_files, conVars, upVars, env>>

\* Lines 130-136: the transcript is written, or open/write raises.
Save(j) ==
    /\ pc[j] = "save"
    /\ \/ /\ written' = [written EXCEPT ![j] = Strip(full_transcription[j])]
          /\ pc' = [pc EXCEPT ![j] = "test_complete"]
          /\ exc' = exc
       \/ /\ "save" \in env.faults
          /\ Raise(j, "Failed to save transcription")
          /\ written' = written
    /\ UNCHANGED <<registry, chan, log, qid, num_chunks, index, text,
                   full_transcription, unhandled, emitted, calls,
                   total_length_ms, chunk_files, conVars, upVars, env>>

\* A pipeline that ends without telling the stream that it is complete.
TestCompleteMut(j) ==
    /\ pc[j] = "test_complete"
    /\ pc' = [pc EXCEPT ![j] = "test_cleanup"]
    /\ UNCHANGED <<registry, chan, log, qid, num_chunks, index, text,
                   full_transcription, written, exc, unhandled, emitted,
                   calls, total_length_ms, chunk_files, conVars, upVars, env>>

\* Line 139.
TestComplete(j) ==
    /\ pc[j] = "test_complete"
    /\ pc' = [pc EXCEPT ![j] =
                IF registry[qid[j]] # 0 THEN "put_complete" ELSE "test_cleanup"]
    /\ UNCHANGED <<registry, chan, log, qid, num_chunks, index, text,
                   full_transcription, written, exc, unhandled, emitted,
                   calls,
                   total_length_ms, chunk_files, conVars, upVars, env>>

\* Lines 140-145: a KeyError here is caught by line 144 and re-raised.
PutComplete(j) ==
    /\ pc[j] = "put_complete"
    /\ IF registry[qid[j]] # 0
       THEN /\ Put(j, registry[qid[j]], 0, Complete(TranscriptionFile(qid[j])))
            /\ pc' = [pc EXCEPT ![j] = "test_cleanup"]
            /\ exc' = exc
       ELSE /\ Raise(j, "KeyError")
            /\ UNCHANGED <<chan, log, emitted>>
    /\ UNCHANGED <<registry, qid, num_chunks, index, text, full_transcription,
                   written, unhandled, calls,
                   total_length_ms, chunk_files, conVars, upVars, env>>

\* Line 150.
TestError(j) ==
    /\ pc[j] = "test_error"
    /\ pc' = [pc EXCEPT ![j] =
                IF registry[qid[j]] # 0 THEN "put_error" ELSE "test_cleanup"]
    /\ UNCHANGED <<registry, chan, log, qid, num_chunks, index, text,
                   full_transcription, written, exc, unhandled, emitted,
                   calls,
                   total_length_ms, chunk_files, conVars, upVars, env>>

\* Lines 151-154: nothing catches a KeyError raised inside the handler; the
\* finally clause runs and the exception leaves the thread.
PutError(j) ==
    /\ pc[j] = "put_error"
    /\ IF registry[qid[j]] # 0
       THEN /\ Put(j, registry[qid[j]], 0, Error(exc[j]))
            /\ unhandled' = unhandled
       ELSE /\ unhandled' = [unhandled EXCEPT ![j] = "put_error"]
            /\ UNCHANGED <<chan, log, emitted>>
    /\ pc' = [pc EXCEPT ![j] = "test_cleanup"]
    /\ UNCHANGED <<registry, qid, num_chunks, index, text, full_transcription,
                   written, exc, calls,
                   total_length_ms, chunk_files, conVars, upVars, env>>

\* Line 157.
TestCleanup(j) ==
    /\ pc[j] = "test_cleanup"
    /\ pc' = [pc EXCEPT ![j] =
                IF registry[qid[j]] # 0 THEN "del" ELSE "done"]
    /\ UNCHANGED <<registry, chan, log, qid, num_chunks, index, text,
                   full_transcription, written, exc, unhandled, emitted,
                   calls,
                   total_length_ms, chunk_files, conVars, upVars, env>>

\* Line 158: del of a missing key is a KeyError that leaves the thread.
Cleanup(j) ==
    /\ pc[j] = "del"
    /\ IF registry[qid[j]] # 0
       THEN /\ registry' = [registry EXCEPT ![qid[j]] = 0]
            /\ unhandled' = unhandled
       ELSE /\ unhandled' = [unhandled EXCEPT ![j] = "del"]
            /\ registry' = registry
    /\ pc' = [pc EXCEPT ![j] = "done"]
    /\ UNCHANGED <<chan, log, qid, num_chunks, index, text,
                   full_transcription, written, exc, emitted, calls,
                   total_length_ms, chunk_files, conVars, upVars, env>>

\* ------------------------------------------------------------- stream
\* A stream that answers every request with the event stream.
StreamMut(c, q) ==
    /\ cpc[c] = "idle"
    /\ cqid' = [cqid EXCEPT ![c] = q]
    /\ conn' = [conn EXCEPT ![c] = IF q = NoQueueId THEN 0 ELSE registry[q]]
    /\ cpc' = [cpc EXCEPT ![c] = IF q = NoQueueId THEN "404" ELSE "lookup"]
    /\ UNCHANGED <<registry, chan, log, jobVars, held, relayed, upVars, env>>

\* Lines 196-201 and 215: 404 for a missing or unknown queue_id, else the
\* response that will run generate().
Stream(c, q) ==
    /\ cpc[c] = "idle"
    /\ cqid' = [cqid EXCEPT ![c] = q]
    /\ conn' = [conn EXCEPT ![c] = IF q = NoQueueId THEN 0 ELSE registry[q]]
    /\ cpc' = [cpc EXCEPT ![c] =
                 IF q = NoQueueId \/ registry[q] = 0 THEN "404" ELSE "lookup"]
    /\ UNCHANGED <<registry, chan, log, jobVars, held, relayed, upVars, env>>

\* Line 206, transcription_queues[queue_id]: nothing in generate() catches
\* the KeyError of a missing key, and the stream breaks off.
Lookup(c) ==
    /\ cpc[c] = "lookup"
    /\ IF registry[cqid[c]] # 0
       THEN /\ held' = [held EXCEPT ![c] = registry[cqid[c]]]
            /\ cpc' = [cpc EXCEPT ![c] = "get"]
       ELSE /\ held' = held
            /\ cpc' = [cpc EXCEPT ![c] = "KeyError"]
    /\ UNCHANGED <<registry, chan, log, jobVars, cqid, conn, relayed, upVars, env>>

\* Lines 206-210: get() returns the oldest item, which is yielded; a
\* terminal event ends the loop.
Get(c) ==
    /\ cpc[c] = "get"
    /\ chan[held[c]] # <<>>
    /\ chan' = [chan EXCEPT ![held[c]] = Tail(@)]
    /\ relayed' = [relayed EXCEPT ![c] = Append(@, Head(chan[held[c]]))]
    /\ cpc' = [cpc EXCEPT ![c] =
                 IF IsTerminal(Head(chan[held[c]])) THEN "done" ELSE "lookup"]
    /\ UNCHANGED <<registry, log, jobVars, cqid, conn, held, upVars, env>>

\* A generator that deregisters its queue when it times out.
TimeoutMut(c) ==
    /\ cpc[c] = "get"
    /\ chan[held[c]] = <<>>
    /\ cpc' = [cpc EXCEPT ![c] = "timeout"]
    /\ registry' = [registry EXCEPT ![cqid[c]] = 0]
    /\ UNCHANGED <<chan, log, jobVars, cqid, conn, held, relayed, upVars, env>>

\* Lines 211-213: queue.Empty after the timeout ends the loop.
Timeout(c) ==
    /\ cpc[c] = "get"
    /\ chan[held[c]] = <<>>
    /\ cpc' = [cpc EXCEPT ![c] = "timeout"]
    /\ UNCHANGED <<registry, chan, log, jobVars, cqid, conn, held, relayed, upVars, env>>

\* ------------------------------------------------------ specification
JobNext ==
    \/ \E j \in Jobs, r \in env.uploads : Upload(j, r)
    \/ \E j \in Jobs : Convert(j)
    \/ \E j \in Jobs : Split(j)
    \/ \E j \in Jobs : Recognize(j)
    \/ \E j \in Jobs : TestProgress(j)
    \/ \E j \in Jobs : PutProgress(j)
    \/ \E j \in Jobs : PutTranscription(j)
    \/ \E j \in Jobs : Save(j)
    \/ \E j \in Jobs : TestComplete(j)
    \/ \E j \in Jobs : PutComplete(j)
    \/ \E j \in Jobs : TestError(j)
    \/ \E j \in Jobs : PutError(j)
    \/ \E j \in Jobs : TestCleanup(j)
    \/ \E j \in Jobs : Cleanup(j)

StreamNext ==
    \/ \E c \in Consumers, q \in env.queue_ids : Stream(c, q)
    \/ \E c \in Consumers : Lookup(c)
    \/ \E c \in Consumers : Get(c)
    \/ \E c \in Consumers : Timeout(c)

Next == JobNext \/ StreamNext

Spec == Init /\ [][Next]_vars

SpecJobs == InitJobs /\ [][JobNext]_vars

SpecReupload == InitReupload /\ [][JobNext]_vars

SpecUpload == InitUpload /\ [][JobNext]_vars

SpecPipeline == InitPipeline /\ [][JobNext]_vars

\* The steps of job thread j, and of the generator of consumer c.
JobStep(j) ==
    \/ Convert(j) \/ Split(j) \/ Recognize(j) \/ TestProgress(j)
    \/ PutProgress(j) \/ PutTranscription(j) \/ Save(j) \/ TestComplete(j)
    \/ PutComplete(j) \/ TestError(j) \/ PutError(j) \/ TestCleanup(j)
    \/ Cleanup(j)
StreamStep(c) == Lookup(c) \/ Get(c) \/ Timeout(c)

\* A started thread (line 187) keeps being scheduled, and the calls to the
\* converter, the splitter and the recogniser return or raise; nothing is
\* assumed about the stream consumers or about further uploads.
SpecFairJobs ==
    InitFair /\ [][Next]_vars /\ \A j \in 1..MaxJobs : WF_vars(JobStep(j))

\* The server keeps iterating the generator of a stream it has returned
\* (line 215); nothing is assumed about the job threads.
SpecFairStream ==
    InitFair /\ [][Next]_vars /\ \A c \in 1..MaxConsumers : WF_vars(StreamStep(c))

\* ===================================================================
\* The properties.
\* ===================================================================
\* The events job j has put, oldest first, and the places of the terminal
\* ones among them.
Events(j) == [i \in 1..Len(emitted[j]) |-> emitted[j][i].ev]
Terminals(j) == {i \in 1..Len(emitted[j]) : IsTerminal(emitted[j][i].ev)}
HasEmitted(j, type) == \E i \in 1..Len(emitted[j]) : emitted[j][i].ev.type = type

\* C1: every job emits exactly one terminal event (complete or error) and
\* emits nothing after it: never two terminal events, a terminal event is
\* the job's last event, and a job that has ended has emitted one.
C1_ExactlyOneTerminal ==
    \A j \in Jobs :
        /\ Cardinality(Terminals(j)) <= 1
        /\ \A i \in Terminals(j) : i = Len(emitted[j])
        /\ pc[j] = "done" => Terminals(j) # {}

\* C2: a consumer that connected while its queue_id was registered relays
\* every event the job pushed, in push order, up to the terminal event.
\* Stated for a stream that has ended otherwise than by the timeout, once
\* the job has ended, when no other upload used that queue_id.
C2_ConsumerDrains ==
    \A c \in Consumers :
        (/\ conn[c] # 0
         /\ cpc[c] \in {"done", "KeyError"}
         /\ pc[conn[c]] = "done"
         /\ \A i \in Jobs \ {conn[c]} : pc[i] = "idle" \/ qid[i] # cqid[c])
        => relayed[c] = Events(conn[c])

\* C3: in every queue's sequence of events each transcription event comes
\* right after the progress event of the same segment of the same job.
C3_FragmentFollowsProgress ==
    \A c \in Jobs : \A i \in 1..Len(log[c]) :
        log[c][i].ev.type = "transcription"
        => /\ i > 1
           /\ log[c][i - 1].ev.type = "progress"
           /\ log[c][i - 1].by = log[c][i].by
           /\ log[c][i - 1].seg = log[c][i].seg

IsProgress(e) == e.type = "progress"
IsTranscription(e) == e.type = "transcription"
ProgressOf(j) == SelectSeq(Events(j), IsProgress)
FragmentsOf(j) == SelectSeq(Events(j), IsTranscription)

\* C4: a job that emitted complete has emitted exactly num_chunks progress
\* events, with chunk = 1, 2, ..., num_chunks in this order and
\* total = num_chunks.
C4_ProgressCountsToN ==
    \A j \in Jobs :
        HasEmitted(j, "complete")
        => /\ Len(ProgressOf(j)) = num_chunks[j]
           /\ \A i \in 1..Len(ProgressOf(j)) :
                /\ ProgressOf(j)[i].chunk = i
                /\ ProgressOf(j)[i].total = num_chunks[j]

\* C5: once recognition of segment k has raised sr.RequestError the job
\* makes no further recognition call, has emitted and emits no progress or
\* transcription event for segment k or a later one, writes no transcript,
\* is on its failure path, and every terminal event it emits is an error.
C5_ServiceErrorAborts ==
    \A j \in Jobs : \A n \in 1..Len(calls[j]) :
        calls[j][n].result = "RequestError"
        => LET k == calls[j][n].chunk IN
           /\ n = Len(calls[j])
           /\ \A m \in 1..Len(calls[j]) : calls[j][m].chunk <= k
           /\ \A i \in 1..Len(emitted[j]) :
                LET e == emitted[j][i] IN
                /\ e.ev.type \in {"progress", "transcription"} => e.seg < k
                /\ e.ev.type = "progress" => e.ev.chunk < k
                /\ IsTerminal(e.ev) => e.ev.type = "error"
           /\ written[j] = NoFile
           /\ exc[j] = "RequestError"
           /\ pc[j] \in {"test_error", "put_error", "test_cleanup", "del", "done"}

\* Segment 1 of 2 raised sr.RequestError, and the job has ended with its
\* error event.
C5_Witness ==
    \E j \in Jobs :
        /\ num_chunks[j] = 2
        /\ Len(calls[j]) = 1
        /\ calls[j][1].result = "RequestError"
        /\ pc[j] = "done"
        /\ HasEmitted(j, "error")

RECURSIVE JoinCalls(_)
JoinCalls(cs) ==
    IF cs = <<>> THEN <<>> ELSE cs[1].text \o <<" ">> \o JoinCalls(Tail(cs))

RECURSIVE JoinTexts(_)
JoinTexts(es) ==
    IF es = <<>> THEN <<>> ELSE es[1].text \o JoinTexts(Tail(es))

\* The job has left the iteration of segment k without a failure in it.
PastSegment(j, k) ==
    \/ pc[j] \in {"save", "test_complete", "put_complete"}
    \/ pc[j] \in {"recognize", "test_progress", "put_progress", "put_transcription"}
          /\ index[j] > k
    \/ Len(calls[j]) > k

\* C6: a segment k that recognition did not understand gets the
\* placeholder: once the job is past that segment it has emitted
\* progress(k) and then transcription(placeholder) for it, and a transcript
\* it writes holds the placeholder at that segment's place.
C6_NotUnderstoodContinues ==
    \A j \in Jobs : \A n \in 1..Len(calls[j]) :
        calls[j][n].result = "UnknownValueError"
        => LET k == calls[j][n].chunk IN
           /\ calls[j][n].text = NOT_UNDERSTOOD
           /\ PastSegment(j, k)
              => \E i \in 1..Len(emitted[j]) :
                    /\ i < Len(emitted[j])
                    /\ emitted[j][i].ev = Progress(k, num_chunks[j])
                    /\ emitted[j][i + 1].ev = Transcription(NOT_UNDERSTOOD \o <<" ">>)
           /\ written[j] # NoFile => written[j] = Strip(JoinCalls(calls[j]))

\* C7: the transcript of a job that emitted complete is the trimmed
\* concatenation, in order, of the texts of the transcription events the
\* job emitted.
C7_FileIsTrimmedFragments ==
    \A j \in Jobs :
        HasEmitted(j, "complete")
        => written[j] = Strip(JoinTexts(FragmentsOf(j)))

\* C8: a push never raises and never turns the job into a failed one,
\* whether the key is absent or is removed between the membership test and
\* the lookup: no KeyError reaches the job's handlers or leaves the thread
\* from a put.
C8_PushNeverFatal ==
    \A j \in Jobs : exc[j] # "KeyError" /\ unhandled[j] # "put_error"

\* C9: the teardown never raises, also when two jobs with one queue_id run
\* it concurrently, and a job that has ended has left no queue of its own
\* registered.
C9_TeardownNeverFails ==
    \A j \in Jobs :
        /\ unhandled[j] # "del"
        /\ pc[j] = "done" => registry[qid[j]] # j

\* C10: a get() that times out ends the stream with nothing sent for it
\* and with no terminal event sent at all, leaves the registry as it is,
\* and a key leaves the registry only by the del of a pipeline's teardown.
C10_TimeoutSilent ==
    [][/\ \A c \in Consumers :
            cpc'[c] = "timeout" /\ cpc[c] # "timeout"
            => /\ cpc[c] = "get"
               /\ chan[held[c]] = <<>>
               /\ registry' = registry
               /\ relayed'[c] = relayed[c]
               /\ \A i \in 1..Len(relayed'[c]) : ~IsTerminal(relayed'[c][i])
       /\ \A q \in QueueIds :
            registry[q] # 0 /\ registry'[q] = 0
            => \E j \in Jobs : pc[j] = "del" /\ pc'[j] = "done" /\ qid[j] = q
      ]_vars

\* A stream timed out with nothing relayed while its key is still
\* registered and the job is still running.
C10_Witness ==
    \E c \in Consumers :
        /\ cpc[c] = "timeout"
        /\ relayed[c] = <<>>
        /\ registry[cqid[c]] = conn[c]
        /\ conn[c] # 0
        /\ pc[conn[c]] \notin {"idle", "done"}

\* C11: GET /stream answers 404 exactly when the queue_id is missing or is
\* not a key of the registry at that moment, and otherwise returns the
\* event stream; a 404 relays no event, then or later, and the request
\* leaves the registry as it is.
C11_StreamOnlyIfRegistered ==
    [][\A c \in Consumers :
         /\ cpc[c] = "idle" /\ cpc'[c] # "idle"
            => /\ registry' = registry
               /\ cpc'[c] = "404"
                    <=> (cqid'[c] = NoQueueId \/ registry[cqid'[c]] = 0)
               /\ cpc'[c] # "404" => cpc'[c] = "lookup" /\ conn'[c] # 0
               /\ relayed'[c] = <<>>
         /\ cpc[c] = "404" => cpc'[c] = "404" /\ relayed'[c] = <<>>
      ]_vars

\* A stream was asked for the queue_id of a job that has finished and was
\* answered 404.
C11_Witness ==
    \E c \in Consumers :
        /\ cpc[c] = "404"
        /\ cqid[c] # NoQueueId
        /\ relayed[c] = <<>>
        /\ \E j \in Jobs : pc[j] = "done" /\ qid[j] = cqid[c]

\* The upload has a file whose name ends in a dot followed by mp3 or m4a,
\* in any mix of upper and lower case.
HasAudioExtension(r) ==
    /\ r.has_file
    /\ r.filename # <<>>
    /\ \E k \in DOMAIN r.filename :
         /\ r.filename[k] = "."
         /\ \A i \in (k + 1)..Len(r.filename) : r.filename[i] # "."
         /\ Lower(SubSeq(r.filename, k + 1, Len(r.filename)))
                \in {<<"m", "p", "3">>, <<"m", "4", "a">>}

\* A step of upload_file: a response is sent, or a pipeline starts.
IsUploadStep ==
    \/ request' # request
    \/ status' # status
    \/ \E j \in Jobs : pc[j] = "idle" /\ pc'[j] # "idle"

\* C12: an upload without a file part, without a filename or with an
\* extension other than mp3 or m4a (in any case) is answered 400, changes
\* no key of the registry and starts no pipeline; any other upload is
\* answered with success, puts one new empty queue under the sanitized
\* filename, changes no other key and starts one pipeline, with that
\* queue_id.
C12_UploadValidation ==
    [][IsUploadStep
       => IF HasAudioExtension(request')
          THEN /\ status' = 200
               /\ \E j \in Jobs :
                    /\ pc[j] = "idle" /\ pc'[j] = "convert"
                    /\ \A i \in Jobs \ {j} : pc'[i] = pc[i]
                    /\ qid'[j] = secure_filename(request'.filename)
                    /\ registry' = [registry EXCEPT ![qid'[j]] = j]
                    /\ chan'[j] = <<>>
                    /\ \A q \in DOMAIN registry : registry[q] # j
          ELSE /\ status' = 400
               /\ registry' = registry
               /\ pc' = pc
      ]_vars

\* An upload with another extension was answered 400 while the pipeline of
\* an earlier upload, one with an upper-case extension, was registered.
C12_Witness ==
    /\ status = 400
    /\ request.has_file
    /\ "." \in Range(request.filename)
    /\ \E j \in Jobs :
         /\ registry[qid[j]] = j
         /\ qid[j] = <<"a", ".", "M", "P", "3">>

\* The job has cut its chunks.
HasSplit(j) ==
    /\ pc[j] \notin {"idle", "convert", "split"}
    /\ exc[j] \notin {"Audio conversion failed", "Chunk creation failed"}

ChunkLength(c) == c.end - c.start

RECURSIVE SumOfLengths(_)
SumOfLengths(cf) ==
    IF cf = <<>> THEN 0 ELSE ChunkLength(Head(cf)) + SumOfLengths(Tail(cf))

\* C13: audio of T ms is cut into N = ceil(T / 60000) chunks (the least N
\* with N * 60000 >= T), numbered 1..N; chunk i covers
\* [(i-1) * 60000, min(i * 60000, T)); the chunks are consecutive from 0 to
\* T without gap or overlap, their lengths sum to T, all but the last are
\* 60000 ms long, and none is empty.
C13_SegmentsCoverAudio ==
    \A j \in Jobs :
        HasSplit(j) =>
            LET T == total_length_ms[j]
                cf == chunk_files[j]
                N == Len(cf)
            IN  /\ num_chunks[j] = N
                /\ N * chunk_length_ms >= T
                /\ N > 0 => (N - 1) * chunk_length_ms < T
                /\ \A i \in 1..N :
                     /\ cf[i].start = (i - 1) * chunk_length_ms
                     /\ cf[i].end = Min(i * chunk_length_ms, T)
                     /\ ChunkLength(cf[i]) > 0
                     /\ i < N => ChunkLength(cf[i]) = chunk_length_ms
                     /\ i < N => cf[i + 1].start = cf[i].end
                /\ N > 0 => cf[1].start = 0 /\ cf[N].end = T
                /\ SumOfLengths(cf) = T

\* Audio one millisecond longer than two chunks was cut into three, the
\* last of one millisecond.
C13_Witness ==
    \E j \in Jobs :
        /\ HasSplit(j)
        /\ total_length_ms[j] = 2 * chunk_length_ms + 1
        /\ Len(chunk_files[j]) = 3
        /\ ChunkLength(chunk_files[j][3]) = 1

\* The events of the given type job j has put.
EmittedOfType(j, type) ==
    {i \in 1..Len(emitted[j]) : emitted[j][i].ev.type = type}

\* C14: a job in which something failed has, when it ends, emitted exactly
\* one error event and let no exception leave the thread; if the conversion
\* or the cutting of the chunks failed it has emitted no progress,
\* transcription or complete event, made no recognition call and written
\* no transcript.
C14_FailureBecomesError ==
    \A j \in Jobs :
        /\ exc[j] # "none" /\ pc[j] = "done"
           => /\ Cardinality(EmittedOfType(j, "error")) = 1
              /\ unhandled[j] = "none"
        /\ exc[j] \in {"Audio conversion failed", "Chunk creation failed"}
           => /\ EmittedOfType(j, "progress") = {}
              /\ EmittedOfType(j, "transcription") = {}
              /\ EmittedOfType(j, "complete") = {}
              /\ calls[j] = <<>>
              /\ written[j] = NoFile

\* C15: the segments are recognised in ascending order 1..N, each at most
\* once, and when recognition of segment i+1 has started the progress and
\* the transcription event of segment i have been pushed.
C15_NextSegmentAfterPushes ==
    \A j \in Jobs :
        /\ Len(calls[j]) <= num_chunks[j]
        /\ \A n \in 1..Len(calls[j]) : calls[j][n].chunk = n
        /\ \A n \in 2..Len(calls[j]) :
             /\ \E i \in EmittedOfType(j, "progress") : emitted[j][i].seg = n - 1
             /\ \E i \in EmittedOfType(j, "transcription") : emitted[j][i].seg = n - 1

\* s is t with n more characters in front and m more behind, all of them
\* whitespace.
IsTrimOf(s, t, n, m) ==
    /\ Len(t) = n + Len(s) + m
    /\ SubSeq(t, n + 1, n + Len(s)) = s
    /\ \A i \in 1..n : IsSpace(t[i])
    /\ \A i \in (n + Len(s) + 1)..Len(t) : IsSpace(t[i])

\* The job got through the write of its transcript.
HasSaved(j) ==
    \/ pc[j] \in {"test_complete", "put_complete"}
    \/ pc[j] \in {"test_cleanup", "del", "done"} /\ exc[j] = "none"

\* A complete event is emitted only once the transcript is written, and
\* carries transcriptions/transcription_for_<basename>.txt.
CompleteAfterWrite(j) ==
    /\ HasSaved(j) => written[j] # NoFile
    /\ \A i \in EmittedOfType(j, "complete") :
         /\ written[j] # NoFile
         /\ \E k \in DOMAIN qid[j] :
              /\ qid[j][k] = "."
              /\ emitted[j][i].ev.download_link
                   = <<"transcriptions/", "transcription_for_">>
                        \o SubSeq(qid[j], 1, k - 1) \o <<".txt">>

\* C16 as stated: the transcript written is the accumulated text with only
\* its trailing whitespace removed, what is in front kept as it is; the
\* complete event comes after the write and carries the file's path.
C16_OnlyTrailingRemoved ==
    \A j \in Jobs :
        /\ written[j] # NoFile
           => /\ \E m \in 0..Len(full_transcription[j]) :
                    IsTrimOf(written[j], full_transcription[j], 0, m)
              /\ written[j] # <<>> => ~IsSpace(written[j][Len(written[j])])
        /\ CompleteAfterWrite(j)

\* C16, amended: the transcript written is the accumulated text with the
\* whitespace at both ends removed and everything between kept; the
\* complete event comes after the write and carries the file's path.
C16_BothEndsTrimmed ==
    \A j \in Jobs :
        /\ written[j] # NoFile
           => /\ \E n, m \in 0..Len(full_transcription[j]) :
                    IsTrimOf(written[j], full_transcription[j], n, m)
              /\ written[j] # <<>>
                 => /\ ~IsSpace(written[j][1])
                    /\ ~IsSpace(written[j][Len(written[j])])
        /\ CompleteAfterWrite(j)

\* The first segment was silence and a later one a word: the accumulated
\* text starts with a space, the file does not, and complete was emitted.
C16_Witness ==
    \E j \in Jobs :
        /\ HasEmitted(j, "complete")
        /\ full_transcription[j] # <<>>
        /\ IsSpace(full_transcription[j][1])
        /\ written[j] # <<>>
        /\ written[j] # NoFile

\* C17: every job that has started eventually ends, with the Queue made
\* for it no longer registered, whatever the stream consumers do (never
\* connect, connect and stop, drain) and whatever other uploads arrive.
C17_JobEndsAndDeregisters ==
    \A j \in 1..MaxJobs :
        (pc[j] # "idle") ~> (pc[j] = "done" /\ registry[qid[j]] # j)

\* A job has ended with all its events still in its queue, no stream ever
\* having connected.
C17_Witness ==
    \E j \in Jobs :
        /\ pc[j] = "done"
        /\ Len(chan[j]) = 3
        /\ registry[qid[j]] = 0
        /\ \A c \in Consumers : cpc[c] = "idle"

\* C18: the Queue made for an upload holds only events put by that
\* upload's job, never two terminal events, and while its job has not put
\* its terminal event it stays registered unless a later upload of the
\* same filename has taken the key.
C18_JobsIsolated ==
    \A c \in Jobs :
        /\ \A i \in 1..Len(log[c]) : log[c][i].by = c
        /\ Cardinality({i \in 1..Len(log[c]) : IsTerminal(log[c][i].ev)}) <= 1
        /\ (/\ pc[c] # "idle"
            /\ \A k \in Jobs : k > c /\ pc[k] # "idle" => qid[k] # qid[c]
            /\ registry[qid[c]] # c)
           => Terminals(c) # {}

\* C19: what a consumer has relayed holds at most one terminal event, and
\* only as its last item; once it has relayed one it reads no more; and a
\* stream that has ended has ended after a terminal event or after a
\* timeout.
C19_StopsOnTerminalOrTimeout ==
    \A c \in Consumers :
        /\ \A i \in 1..Len(relayed[c]) :
             IsTerminal(relayed[c][i]) => i = Len(relayed[c]) /\ cpc[c] = "done"
        /\ cpc[c] = "done"
           => relayed[c] # <<>> /\ IsTerminal(relayed[c][Len(relayed[c])])
        /\ cpc[c] \notin {"idle", "404", "lookup", "get"}
           => cpc[c] \in {"done", "timeout"}

\* No other upload of the run so far has job j's queue_id.
HasOwnQueueId(j) ==
    /\ pc[j] # "idle"
    /\ \A k \in Jobs \ {j} : pc[k] # "idle" => qid[k] # qid[j]

\* The recognition calls of job j that were answered, and the segments
\* whose iteration has got past its pushes.
Answered(j) == SelectSeq(calls[j], LAMBDA a : a.result # "RequestError")
PushedSegments(j) ==
    IF pc[j] \in {"test_progress", "put_progress", "put_transcription"}
    THEN Len(Answered(j)) - 1
    ELSE Len(Answered(j))

\* C20: for a job whose queue_id no other job uses, the key holds the
\* job's own Queue from the moment the thread is started until its
\* teardown and is absent after it; no lookup fails; and every event the
\* job produces is in its Queue's history: progress and transcription of
\* every segment it got through, in order, and one terminal event at the
\* end, error if something failed and complete if not.
C20_AloneNothingDropped ==
    \A j \in Jobs :
        HasOwnQueueId(j) =>
            /\ pc[j] # "done" => registry[qid[j]] = j
            /\ pc[j] = "done" => registry[qid[j]] = 0
            /\ exc[j] # "KeyError"
            /\ unhandled[j] = "none"
            /\ log[j] = [i \in 1..Len(emitted[j]) |->
                            [by |-> j, seg |-> emitted[j][i].seg, ev |-> emitted[j][i].ev]]
            /\ \A i \in 1..Len(emitted[j]) : emitted[j][i].ch = j
            /\ ProgressOf(j) =
                 [n \in 1..(PushedSegments(j)
                              + IF pc[j] = "put_transcription" THEN 1 ELSE 0) |->
                     Progress(n, num_chunks[j])]
            /\ FragmentsOf(j) =
                 [n \in 1..PushedSegments(j) |->
                     Transcription(Answered(j)[n].text \o <<" ">>)]
            /\ IF pc[j] \in {"test_cleanup", "del", "done"}
               THEN /\ Terminals(j) = {Len(emitted[j])}
                    /\ emitted[j][Len(emitted[j])].ev.type
                         = IF exc[j] = "none" THEN "complete" ELSE "error"
               ELSE Terminals(j) = {}

\* Two files with different names were uploaded; one job got through two
\* chunks and emitted complete while the other was running, and has ended.
C20_Witness ==
    \E j, k \in Jobs :
        /\ HasOwnQueueId(j)
        /\ pc[j] = "done"
        /\ num_chunks[j] = 2
        /\ Len(log[j]) = 5
        /\ pc[k] \notin {"idle", "done"}

====
